---- MODULE Spec2Model ----
(***************************************************************************)
(* Model of the Telegram phone-verification bot (src/bot.py).              *)
(*                                                                         *)
(* State: the two Firestore collections the bot reads and writes           *)
(* (`users`, `telegramVerifications`) and the outcome of the handler       *)
(* invocation that ran last.  One action per handler registered in main(). *)
(* A handler runs to completion before the next update is dispatched       *)
(* (Application.builder() keeps concurrent_updates off, and every store    *)
(* call is a blocking call of the synchronous client), so each action is   *)
(* the whole handler.                                                      *)
(*                                                                         *)
(* Strings that the code compares or strips (phone numbers, document ids)  *)
(* are sequences of code points.                                           *)
(***************************************************************************)
EXTENDS Integers, Sequences, FiniteSets, TLC

VARIABLES
    users,     \* collection users: document id -> document snapshot
    verifs,    \* collection telegramVerifications: code -> document snapshot
    last,      \* the invocation that just ran: its update, the store before
               \* it, its store calls and replies, whether it raised
    redeemed   \* history: the (code, requester id) pairs of the /start <code>
               \* invocations that wrote a users document while no external
               \* call of theirs raised

vars == <<users, verifs, last, redeemed>>

\* Python's None where a string is expected (a missing userId, no username).
None == "None"
\* Python's None where a number is expected (no telegramId, a contact without
\* user_id); like None it is falsy.
NoId == 0

(***************************************************************************)
(* Bounds                                                                  *)
(***************************************************************************)
\* Longest generated phone string (the literals of PhoneLiterals are extra).
MaxLen == 2
\* Largest ordinal of an external call (store or transport) that may raise.
MaxFailAt == 5

(***************************************************************************)
(* Characters and strings                                                  *)
(***************************************************************************)
\* '+' (U+002B), the character phone_number.lstrip('+') removes.
Plus == 43
\* U+F8FF, the character appended to form the upper end of the range.
HighSentinel == 63743
\* '1': a digit; U+F900: a character that sorts after U+F8FF.
Alphabet == {Plus, 49, HighSentinel, 63744}

\* "1", "1555", "15551234567", "+15551234567"
Phone1 == <<49>>
Phone1555 == <<49, 53, 53, 53>>
Phone15551234567 == <<49, 53, 53, 53, 49, 50, 51, 52, 53, 54, 55>>
PlusPhone15551234567 == <<Plus>> \o Phone15551234567
PhoneLiterals == {Phone1, Phone1555, Phone15551234567, PlusPhone15551234567}

StringsUpTo(n) == UNION {[1..k -> Alphabet] : k \in 0..n}

\* str.lstrip(ch): drop every leading occurrence of ch.
RECURSIVE LStrip(_, _)
LStrip(s, ch) ==
    IF s # <<>> /\ Head(s) = ch THEN LStrip(Tail(s), ch) ELSE s

\* a < b for strings, as Firestore orders string values (by code point).
RECURSIVE LexLess(_, _)
LexLess(a, b) ==
    IF b = <<>> THEN FALSE
    ELSE IF a = <<>> THEN TRUE
    ELSE IF Head(a) # Head(b) THEN Head(a) < Head(b)
    ELSE LexLess(Tail(a), Tail(b))

LexLeq(a, b) == a = b \/ LexLess(a, b)

(***************************************************************************)
(* The document store and the chat transport                               *)
(***************************************************************************)
\* Document ids of telegramVerifications: "ABC123" and "XYZ".
Codes == {<<65, 66, 67, 49, 50, 51>>, <<88, 89, 90>>}
\* Document ids of users.
UserIds == {"u1", "u2"}
\* update.effective_user: numeric id and username (a user may have none).
Requesters == {[id |-> 1, username |-> "alice"], [id |-> 2, username |-> None]}

\* A users document nobody has verified yet.
Unverified ==
    [exists |-> TRUE, phoneVerified |-> FALSE, telegramUsername |-> None, telegramId |-> NoId]
\* The snapshot of a users document that does not exist.
NoUser ==
    [exists |-> FALSE, phoneVerified |-> FALSE, telegramUsername |-> None, telegramId |-> NoId]
\* The snapshot of a telegramVerifications document that does not exist.
NoVerification == [exists |-> FALSE, userId |-> None, hasPhone |-> FALSE, phone |-> <<>>]

\* The texts handed to update.message.reply_text.
WelcomeText == "Welcome"
InvalidCodeText == "Invalid verification code"
InvalidDataText == "Invalid verification data"
UserNotFoundText == "User not found"
SuccessText == "Verified successfully"
ShareOwnText == "Please share your own contact"
NoPhoneText == "No phone number found"
NoPendingText == "No pending verification found"
HelpText == "Help"
AlreadyVerifiedText == "Already verified"
NotYetVerifiedText == "Not yet verified"
ErrStartText == "An error occurred"
ErrVerificationText == "An error occurred during verification"
ErrContactText == "An error occurred while processing your contact"
ErrStatusText == "An error occurred while checking your status"
ErrorTexts == {ErrStartText, ErrVerificationText, ErrContactText, ErrStatusText}

\* Which external calls of one invocation raise: call number failAt, and, when
\* persist, every call after it.  failAt = 0: none.
Envs == {e \in [failAt : 0..MaxFailAt, persist : BOOLEAN] : e.failAt = 0 => ~e.persist}
NoFailure == [failAt |-> 0, persist |-> FALSE]

Raises(env, k) ==
    env.failAt # 0 /\ (k = env.failAt \/ (env.persist /\ k > env.failAt))

\* The running state of one handler invocation: the store, the store calls
\* made, the texts handed to reply_text (ok: the send did not raise), the
\* number of external calls made, and whether an exception is propagating.
Ctx0(u, v) ==
    [users |-> u, verifs |-> v, ops |-> <<>>, replies |-> <<>>, n |-> 0,
     exc |-> FALSE, found |-> FALSE]

\* await update.message.reply_text(text)
ReplyText(c, env, text) ==
    LET k == c.n + 1 IN
    [c EXCEPT !.n = k, !.exc = Raises(env, k),
              !.replies = Append(@, [text |-> text, ok |-> ~Raises(env, k)])]

\* db.collection('telegramVerifications').document(code).get()
GetVerification(c, env, code) ==
    LET k == c.n + 1
        bad == Raises(env, k) IN
    [c EXCEPT !.n = k, !.exc = bad,
              !.ops = Append(@, [op |-> "get", coll |-> "telegramVerifications",
                                 code |-> code, ok |-> ~bad])]

\* db.collection('users').document(uid).get()
GetUser(c, env, uid) ==
    LET k == c.n + 1
        bad == Raises(env, k) IN
    [c EXCEPT !.n = k, !.exc = bad,
              !.ops = Append(@, [op |-> "get", coll |-> "users", uid |-> uid, ok |-> ~bad])]

\* db = firestore.client() (firebase_admin.firestore, not firestore_async) is
\* the synchronous client, as the un-awaited get(), delete() and stream()
\* calls of the handlers take it to be: DocumentReference.update(...)
\* performs the write and returns a WriteResult, which is no awaitable.
UpdateResultAwaitable == FALSE

\* The three fields both workflows write.
VerifiedBy(req) ==
    [phoneVerified |-> TRUE, telegramUsername |-> req.username, telegramId |-> req.id]

\* await user_ref.update({...}): the call is evaluated first (it raises when
\* the store fails or the document does not exist, and writes otherwise), then
\* its result is awaited, which raises TypeError for a non-awaitable.
AwaitUpdate(c, env, uid, req) ==
    LET k == c.n + 1
        bad == Raises(env, k) \/ ~c.users[uid].exists
        op == [op |-> "update", coll |-> "users", uid |-> uid, ok |-> ~bad] IN
    IF bad THEN [c EXCEPT !.n = k, !.exc = TRUE, !.ops = Append(@, op)]
    ELSE [c EXCEPT !.n = k, !.ops = Append(@, op),
                   !.users = [@ EXCEPT ![uid] = [f \in DOMAIN @ |->
                        IF f \in DOMAIN VerifiedBy(req) THEN VerifiedBy(req)[f] ELSE @[f]]],
                   !.exc = ~UpdateResultAwaitable]

\* <telegramVerifications document>.delete()
DocDelete(c, env, code) ==
    LET k == c.n + 1
        bad == Raises(env, k)
        op == [op |-> "delete", coll |-> "telegramVerifications", code |-> code, ok |-> ~bad] IN
    IF bad THEN [c EXCEPT !.n = k, !.exc = TRUE, !.ops = Append(@, op)]
    ELSE [c EXCEPT !.n = k, !.ops = Append(@, op), !.verifs = [@ EXCEPT ![code] = NoVerification]]

\* Mutant of ExceptReply: the exception is caught and logged, nothing is sent.
ExceptReply_LogOnly(c, env, text) ==
    [c EXCEPT !.exc = FALSE]

\* The except clause of a handler: the exception is caught and text is sent;
\* an exception raised by that send leaves the handler.
ExceptReply(c, env, text) ==
    IF c.exc THEN ReplyText([c EXCEPT !.exc = FALSE], env, text) ELSE c

(***************************************************************************)
(* Handlers                                                                *)
(***************************************************************************)
\* Mutant of UserDocMissing: the existence check is left out.
UserDocMissing_Never(c, uid) == FALSE

\* `if not user_doc.exists`
UserDocMissing(c, uid) == ~c.users[uid].exists

\* Mutant of handle_verification: the code is deleted as soon as it is found
\* to carry a userId, before the user is looked up and updated.
handle_verification_DeleteFirst(c0, env, code, req) ==
    LET c1 == GetVerification(c0, env, code)
        data == c1.verifs[code]
        c2 == DocDelete(c1, env, code)
        c3 == GetUser(c2, env, data.userId)
        c4 == AwaitUpdate(c3, env, data.userId, req)
        body ==
            IF c1.exc THEN c1
            ELSE IF ~data.exists THEN ReplyText(c1, env, InvalidCodeText)
            ELSE IF data.userId = None THEN ReplyText(c1, env, InvalidDataText)
            ELSE IF c2.exc THEN c2
            ELSE IF c3.exc THEN c3
            ELSE IF UserDocMissing(c3, data.userId) THEN ReplyText(c3, env, UserNotFoundText)
            ELSE IF c4.exc THEN c4
            ELSE ReplyText(c4, env, SuccessText)
    IN ExceptReply(body, env, ErrVerificationText)

handle_verification(c0, env, code, req) ==
    LET c1 == GetVerification(c0, env, code)
        data == c1.verifs[code]
        c2 == GetUser(c1, env, data.userId)
        c3 == AwaitUpdate(c2, env, data.userId, req)
        c4 == DocDelete(c3, env, code)
        body ==
            IF c1.exc THEN c1
            ELSE IF ~data.exists THEN ReplyText(c1, env, InvalidCodeText)
            ELSE IF data.userId = None THEN ReplyText(c1, env, InvalidDataText)
            ELSE IF c2.exc THEN c2
            ELSE IF UserDocMissing(c2, data.userId) THEN ReplyText(c2, env, UserNotFoundText)
            ELSE IF c3.exc THEN c3
            ELSE IF c4.exc THEN c4
            ELSE ReplyText(c4, env, SuccessText)
    IN ExceptReply(body, env, ErrVerificationText)

\* args: context.args, the words after /start.
start(c0, env, args, req) ==
    LET body ==
            IF args # <<>> THEN handle_verification(c0, env, args[1], req)
            ELSE ReplyText(c0, env, WelcomeText)
    IN ExceptReply(body, env, ErrStartText)

\* Mutant of InRange: the lower end is exclusive ('>' for '>=').
InRange_ExclusiveLow(doc, lo, hi) ==
    doc.hasPhone /\ LexLess(lo, doc.phone) /\ LexLeq(doc.phone, hi)

\* Mutant of InRange: the prefix test runs the other way round (the stored
\* value is the prefix of the shared number).
InRange_StoredIsPrefix(doc, lo, hi) ==
    doc.hasPhone /\ LexLeq(doc.phone, lo) /\ LexLeq(lo, doc.phone \o <<HighSentinel>>)

\* where('phone', '>=', lo).where('phone', '<=', hi): a document matches when
\* it has a phone field within the closed range.
InRange(doc, lo, hi) ==
    doc.hasPhone /\ LexLeq(lo, doc.phone) /\ LexLeq(doc.phone, hi)

\* The documents of a range query come ordered by the filtered field, then by
\* document id.
DocBefore(v, a, b) ==
    LexLess(v[a].phone, v[b].phone) \/ (v[a].phone = v[b].phone /\ LexLess(a, b))

RECURSIVE StreamOrder(_, _)
StreamOrder(v, S) ==
    IF S = {} THEN <<>>
    ELSE LET first == CHOOSE a \in S : \A b \in S \ {a} : DocBefore(v, a, b)
         IN <<first>> \o StreamOrder(v, S \ {first})

\* verifications_ref.where(...).where(...).stream(): one call to the store,
\* whose result is the matching documents as they were when the query ran.
QueryRange(c, env, lo, hi) ==
    LET k == c.n + 1
        bad == Raises(env, k)
        hits == {code \in Codes : c.verifs[code].exists /\ InRange(c.verifs[code], lo, hi)}
        docs == IF bad THEN <<>> ELSE StreamOrder(c.verifs, hits)
    IN [c EXCEPT !.n = k, !.exc = bad,
                 !.ops = Append(@, [op |-> "query", coll |-> "telegramVerifications",
                                    lo |-> lo, hi |-> hi, ok |-> ~bad, docs |-> docs])]

\* The body of `for doc in query:` over the documents not yet visited; snap is
\* the collection as the query returned it (doc.to_dict()).
RECURSIVE ContactLoop(_, _, _, _, _)
ContactLoop(c, env, snap, docs, req) ==
    IF docs = <<>> THEN c
    ELSE LET code == Head(docs)
             user_id == snap[code].userId
             c1 == AwaitUpdate(c, env, user_id, req)
             c2 == DocDelete(c1, env, code)
         IN IF user_id = None THEN ContactLoop(c, env, snap, Tail(docs), req)
            ELSE IF c1.exc THEN c1
            ELSE IF c2.exc THEN c2
            ELSE ContactLoop([c2 EXCEPT !.found = TRUE], env, snap, Tail(docs), req)

\* Mutant of SelfContactMismatch: '==' for '!='.
SelfContactMismatch_Equal(contact, req) ==
    contact.user_id # NoId /\ contact.user_id = req.id

\* `if user_id and user_id != update.effective_user.id`
SelfContactMismatch(contact, req) ==
    contact.user_id # NoId /\ contact.user_id # req.id

\* contact: [user_id, phone_number] of update.message.contact.
handle_contact(c0, env, contact, req) ==
    LET formatted_phone == LStrip(contact.phone_number, Plus)
        c1 == QueryRange(c0, env, formatted_phone, formatted_phone \o <<HighSentinel>>)
        c2 == ContactLoop(c1, env, c1.verifs, c1.ops[Len(c1.ops)].docs, req)
        body ==
            IF SelfContactMismatch(contact, req)
            THEN ReplyText(c0, env, ShareOwnText)
            ELSE IF contact.phone_number = <<>>
            THEN ReplyText(c0, env, NoPhoneText)
            ELSE IF c1.exc THEN c1
            ELSE IF c2.exc THEN c2
            ELSE IF c2.found THEN ReplyText(c2, env, SuccessText)
            ELSE ReplyText(c2, env, NoPendingText)
    IN ExceptReply(body, env, ErrContactText)

\* The except clause of help_command only logs.
help_command(c0, env) ==
    LET body == ReplyText(c0, env, HelpText)
    IN [body EXCEPT !.exc = FALSE]

\* users_ref.where('telegramId', '==', user_id).stream(), then the scan for a
\* verified document.
status_command(c0, env, req) ==
    LET k == c0.n + 1
        bad == Raises(env, k)
        docs == {u \in UserIds : c0.users[u].exists /\ c0.users[u].telegramId = req.id}
        c1 == [c0 EXCEPT !.n = k, !.exc = bad,
                         !.ops = Append(@, [op |-> "query", coll |-> "users",
                                            telegramId |-> req.id, ok |-> ~bad])]
        verified == \E u \in docs : c0.users[u].phoneVerified
        body ==
            IF c1.exc THEN c1
            ELSE IF verified THEN ReplyText(c1, env, AlreadyVerifiedText)
            ELSE ReplyText(c1, env, NotYetVerifiedText)
    IN ExceptReply(body, env, ErrStatusText)

(***************************************************************************)
(* The state machine                                                       *)
(***************************************************************************)
\* Phone fields of the pending verifications, and the phone numbers shared,
\* of the workflow specification.
StoredPhones == {Phone15551234567}
SharedPhones == {<<>>, Phone1555, PlusPhone15551234567}

\* No handler has run yet.
NoContact == [user_id |-> NoId, phone_number |-> <<>>]
NoInvocation(u, v) ==
    [handler |-> None, req |-> [id |-> NoId, username |-> None], args |-> <<>>,
     contact |-> NoContact, env |-> NoFailure, pre |-> [users |-> u, verifs |-> v],
     ops |-> <<>>, replies |-> <<>>, raised |-> FALSE]

\* The pending verifications the web flow may have written: userId and phone
\* are each present or not.
VerificationRecords(phones) ==
    {[exists |-> TRUE, userId |-> uid, hasPhone |-> TRUE, phone |-> p] :
        uid \in {None} \cup UserIds, p \in phones}
    \cup {[exists |-> TRUE, userId |-> uid, hasPhone |-> FALSE, phone |-> <<>>] :
        uid \in {None} \cup UserIds}

InitStore(phones) ==
    /\ users \in [UserIds -> {NoUser, Unverified}]
    /\ verifs \in [Codes -> {NoVerification} \cup VerificationRecords(phones)]
    /\ last = NoInvocation(users, verifs)
    /\ redeemed = {}

Init == InitStore(StoredPhones)

\* The effect of one finished invocation: the store as the handler left it
\* and the record of what the invocation did.
Finish(handler, req, args, contact, env, c) ==
    /\ last.handler = None
    /\ users' = c.users
    /\ verifs' = c.verifs
    /\ last' = [handler |-> handler, req |-> req, args |-> args, contact |-> contact,
                env |-> env, pre |-> [users |-> users, verifs |-> verifs],
                ops |-> c.ops, replies |-> c.replies, raised |-> c.exc]
    /\ redeemed' =
         IF handler = "start" /\ args # <<>> /\ env = NoFailure
            /\ \E i \in DOMAIN c.ops : c.ops[i].op = "update" /\ c.ops[i].ok
         THEN redeemed \cup {[code |-> args[1], id |-> req.id]} ELSE redeemed

Start ==
    \E req \in Requesters, args \in {<<>>} \cup {<<code>> : code \in Codes}, env \in Envs :
        Finish("start", req, args, NoContact, env, start(Ctx0(users, verifs), env, args, req))

Contact ==
    \E req \in Requesters, uid \in {NoId} \cup {r.id : r \in Requesters},
       phone \in SharedPhones, env \in Envs :
        LET contact == [user_id |-> uid, phone_number |-> phone]
        IN Finish("contact", req, <<>>, contact, env,
                  handle_contact(Ctx0(users, verifs), env, contact, req))

Help ==
    \E req \in Requesters, env \in Envs :
        Finish("help", req, <<>>, NoContact, env, help_command(Ctx0(users, verifs), env))

Status ==
    \E req \in Requesters, env \in Envs :
        Finish("status", req, <<>>, NoContact, env, status_command(Ctx0(users, verifs), env, req))

\* application.run_polling(): the handler has returned, nothing of the
\* invocation is kept, and the next update can be dispatched.
Return ==
    /\ last.handler # None
    /\ last' = NoInvocation(users, verifs)
    /\ UNCHANGED <<users, verifs, redeemed>>

Next == Start \/ Contact \/ Help \/ Status \/ Return

Spec == Init /\ [][Next]_vars

(***************************************************************************)
(* The range query over a universe of phone strings: every pending         *)
(* verification belongs to an existing user, any string up to MaxLen (and  *)
(* the literals) is stored or shared, and nothing fails.                   *)
(***************************************************************************)
AllPhones == StringsUpTo(MaxLen) \cup PhoneLiterals

QueryInit ==
    /\ users = [u \in UserIds |-> Unverified]
    /\ verifs \in [Codes -> {NoVerification} \cup
            {[exists |-> TRUE, userId |-> "u1", hasPhone |-> TRUE, phone |-> p] :
                p \in AllPhones}]
    /\ last = NoInvocation(users, verifs)
    /\ redeemed = {}

QueryContact ==
    \E phone \in AllPhones :
        LET req == [id |-> 1, username |-> "alice"]
            contact == [user_id |-> NoId, phone_number |-> phone]
        IN Finish("contact", req, <<>>, contact, NoFailure,
                  handle_contact(Ctx0(users, verifs), NoFailure, contact, req))

QueryNext == QueryContact \/ Return

QuerySpec == QueryInit /\ [][QueryNext]_vars

(***************************************************************************)
(* Vocabulary of the properties                                            *)
(***************************************************************************)
\* The texts the user received, in order.
Delivered == SelectSeq(last.replies, LAMBDA r : r.ok)
DeliveredTexts == [i \in DOMAIN Delivered |-> Delivered[i].text]

\* No external call of the invocation raised.
NoOutage == last.env = NoFailure

StoreUnchanged == users = last.pre.users /\ verifs = last.pre.verifs

\* The users document carries the three fields as req's verification writes them.
IsVerifiedBy(doc, req) ==
    /\ doc.exists /\ doc.phoneVerified
    /\ doc.telegramUsername = req.username /\ doc.telegramId = req.id

\* The store calls of the invocation that write.
Writes == SelectSeq(last.ops, LAMBDA o : o.op \in {"update", "delete"})

\* The invocation is /start <code>, i.e. verify-by-code.
ByCode == last.handler = "start" /\ last.args # <<>>
TheCode == last.args[1]
\* The pending verification as the invocation found it, and the user it names.
TheRecord == last.pre.verifs[TheCode]
Redeemable ==
    /\ TheRecord.exists
    /\ TheRecord.userId # None
    /\ last.pre.users[TheRecord.userId].exists

\* C1: verify-by-code of a code whose record names an existing user leaves
\* that user verified under the requester's username and id, the record
\* deleted, and the success text (no error text) as the reply.
C1_VerifyByCodeHappyPath ==
    (ByCode /\ Redeemable /\ NoOutage) =>
        /\ IsVerifiedBy(users[TheRecord.userId], last.req)
        /\ ~verifs[TheCode].exists
        /\ DeliveredTexts = <<SuccessText>>

\* C3: verify-by-code of a code with no record, of a record without userId,
\* or of a record whose user does not exist makes no write call and leaves
\* both collections as they were; the text it hands to reply_text is "invalid
\* code", "invalid verification data" and "user not found" respectively
\* (whenever the lookups before that exit did not raise).
C3_NotFoundExitsMutateNothing ==
    (ByCode /\ ~Redeemable) =>
        /\ Writes = <<>>
        /\ StoreUnchanged
        /\ (\A i \in DOMAIN last.ops : last.ops[i].ok) =>
              /\ last.replies # <<>>
              /\ last.replies[1].text =
                    IF ~TheRecord.exists THEN InvalidCodeText
                    ELSE IF TheRecord.userId = None THEN InvalidDataText
                    ELSE UserNotFoundText

\* C3's case: the deepest exit, a record naming a user that does not exist.
C3_Witness ==
    /\ ByCode /\ TheRecord.exists /\ TheRecord.userId # None
    /\ ~last.pre.users[TheRecord.userId].exists
    /\ DeliveredTexts = <<UserNotFoundText>>
    /\ Len(last.ops) = 2

\* C2: once a verify-by-code invocation for a code has marked the user
\* verified (no store or transport call of it failing), every later verify-by-code invocation with that code replies
\* "invalid code" and changes nothing in the store.
C2_SingleUse ==
    [][(/\ last.handler = None
        /\ last'.handler = "start" /\ last'.args # <<>>
        /\ last'.env = NoFailure
        /\ \E r \in redeemed : r.code = last'.args[1])
       => (/\ last'.replies = <<[text |-> InvalidCodeText, ok |-> TRUE]>>
           /\ users' = users /\ verifs' = verifs)]_vars

\* C10: of the verify-by-code invocations that two different requesters make
\* with one code (no store or transport call failing), at most one updates
\* the user document.
C10_OneRedeemerPerCode ==
    \A a \in redeemed, b \in redeemed : a.code = b.code => a.id = b.id

\* The invocation is a shared contact.
ByContact == last.handler = "contact"
\* The range queries the invocation made that the store answered.
Queries == SelectSeq(last.ops, LAMBDA o : o.op = "query" /\ o.ok)
\* The documents the query returned that carry a userId.
Matched ==
    {code \in Codes : /\ \E i \in DOMAIN Queries[1].docs : Queries[1].docs[i] = code
                      /\ last.pre.verifs[code].userId # None}

\* C4: a contact whose embedded user id is present and is not the requester's
\* is answered with "share your own contact" and the handler makes no store
\* call at all, whatever the phone number and the store hold.
C4_SelfContactCheck ==
    (ByContact /\ last.contact.user_id # NoId /\ last.contact.user_id # last.req.id) =>
        /\ last.ops = <<>>
        /\ StoreUnchanged
        /\ last.replies # <<>>
        /\ last.replies[1].text = ShareOwnText

\* C4's case: somebody else's contact whose number has a pending verification.
C4_Witness ==
    /\ ByContact
    /\ last.contact.user_id # NoId /\ last.contact.user_id # last.req.id
    /\ last.contact.phone_number = PlusPhone15551234567
    /\ \E code \in Codes :
          /\ last.pre.verifs[code].exists /\ last.pre.verifs[code].hasPhone
          /\ last.pre.verifs[code].phone = Phone15551234567
          /\ last.pre.verifs[code].userId # None
          /\ last.pre.users[last.pre.verifs[code].userId].exists
    /\ DeliveredTexts = <<ShareOwnText>>

\* C5: a contact share that matches several pending verifications of
\* different existing users leaves every one of those users verified under the
\* requester's username and id and every one of those records deleted, and
\* sends the success text once.
C5_ContactConsumesEveryMatch ==
    (/\ ByContact /\ NoOutage /\ Queries # <<>>
     /\ Cardinality(Matched) >= 2
     /\ \A a \in Matched, b \in Matched :
            a # b => last.pre.verifs[a].userId # last.pre.verifs[b].userId
     /\ \A a \in Matched : last.pre.users[last.pre.verifs[a].userId].exists)
    => /\ \A a \in Matched :
            /\ IsVerifiedBy(users[last.pre.verifs[a].userId], last.req)
            /\ ~verifs[a].exists
       /\ DeliveredTexts = <<SuccessText>>

\* Some call of the invocation's try body raised: a store call, the send of a
\* text that is no error text, or the await of an update's result.
BodyRaised ==
    \/ \E i \in DOMAIN last.ops : ~last.ops[i].ok
    \/ \E i \in DOMAIN last.replies :
          ~last.replies[i].ok /\ last.replies[i].text \notin ErrorTexts
    \/ ~UpdateResultAwaitable
         /\ \E i \in DOMAIN last.ops : last.ops[i].op = "update" /\ last.ops[i].ok
\* The error texts handed to reply_text, in order.
ErrorReplies == SelectSeq(last.replies, LAMBDA r : r.text \in ErrorTexts)
\* The error text of the innermost handler the invocation runs.
OwnErrorText ==
    IF ByCode THEN ErrVerificationText
    ELSE IF last.handler = "start" THEN ErrStartText
    ELSE IF last.handler = "contact" THEN ErrContactText
    ELSE ErrStatusText

\* C8 as claimed: in every handler an exception of the body ends in a
\* generic failure reply, and no exception leaves a handler.
C8_EveryHandlerConverts ==
    last.handler # None =>
        /\ ~last.raised
        /\ BodyRaised => ErrorReplies # <<>>

\* C8 as amended: start, verify-by-code, verify-by-contact and status catch
\* an exception of their body and hand their failure text to reply_text; an
\* exception leaves a handler only when the send of that failure text raises
\* too.  help catches and only logs: no failure text, and nothing leaves it.
C8_CatchAndReply ==
    /\ last.handler \in {"start", "contact", "status"} =>
          /\ BodyRaised => (ErrorReplies # <<>> /\ ErrorReplies[1].text = OwnErrorText)
          /\ ~BodyRaised => (ErrorReplies = <<>> /\ ~last.raised)
          /\ last.raised =>
                /\ last.replies[Len(last.replies)].text \in ErrorTexts
                /\ ~last.replies[Len(last.replies)].ok
    /\ last.handler = "help" => (~last.raised /\ ErrorReplies = <<>>)

\* C8's case: the store query of /status raised and the user got the
\* failure text.
C8_Witness ==
    /\ last.handler = "status"
    /\ last.ops # <<>> /\ ~last.ops[1].ok
    /\ DeliveredTexts = <<ErrStatusText>>
    /\ ~last.raised

\* C9: verify-by-code calls delete only after the update of the user has
\* been applied; and when the handler fails after the update, before or in
\* the delete, the user stays verified and the record stays as it was,
\* still redeemable.
C9_UpdateBeforeDelete ==
    ByCode =>
        /\ \A i \in DOMAIN last.ops : last.ops[i].op = "delete" =>
              \E j \in 1..(i - 1) :
                  /\ last.ops[j].op = "update" /\ last.ops[j].ok
                  /\ users[last.ops[j].uid].phoneVerified
        /\ (/\ \E j \in DOMAIN last.ops : last.ops[j].op = "update" /\ last.ops[j].ok
            /\ ~\E i \in DOMAIN last.ops : last.ops[i].op = "delete" /\ last.ops[i].ok)
           => /\ IsVerifiedBy(users[TheRecord.userId], last.req)
              /\ verifs[TheCode] = TheRecord
              /\ TheRecord.exists

\* C9's case: the handler failed after the update; the user is verified and
\* the code is still there.
C9_Witness ==
    /\ ByCode
    /\ \E j \in DOMAIN last.ops : last.ops[j].op = "update" /\ last.ops[j].ok
    /\ DeliveredTexts = <<ErrVerificationText>>
    /\ ~last.pre.users[TheRecord.userId].phoneVerified
    /\ IsVerifiedBy(users[TheRecord.userId], last.req)
    /\ verifs[TheCode].exists

\* p is a literal prefix of s (s = p included).
IsPrefix(p, s) == Len(p) <= Len(s) /\ SubSeq(s, 1, Len(p)) = p
\* What follows the prefix p in s.
Rest(p, s) == SubSeq(s, Len(p) + 1, Len(s))
\* The normalized number the handler queried with, and what the store returned.
Normalized == Queries[1].lo
Returned == {Queries[1].docs[i] : i \in DOMAIN Queries[1].docs}
\* The pending verifications with a phone field, as the query found them.
WithPhone == {code \in Codes : last.pre.verifs[code].exists /\ last.pre.verifs[code].hasPhone}
PhoneOf(code) == last.pre.verifs[code].phone

C7_ShortStoredMatchesLonger ==
    (ByContact /\ Queries # <<>> /\ Normalized = Phone15551234567) =>
        \A code \in WithPhone : PhoneOf(code) = Phone1 => code \in Returned

\* C7 as amended: the shared number "15551234567" does not return a pending
\* verification whose phone field is "1"; it is the shared number "1" that
\* returns one whose phone field is "15551234567".
C7_LongerStoredMatchesShort ==
    (ByContact /\ Queries # <<>>) =>
        /\ Normalized = Phone15551234567 =>
              \A code \in WithPhone : PhoneOf(code) = Phone1 => code \notin Returned
        /\ Normalized = Phone1 =>
              \A code \in WithPhone : PhoneOf(code) = Phone15551234567 => code \in Returned

\* C7's case: "+15551234567" is shared while a record with phone "1" is
\* pending, and the query returns without it.
C7_Witness ==
    /\ ByContact /\ Queries # <<>>
    /\ last.contact.phone_number = PlusPhone15551234567
    /\ Normalized = Phone15551234567
    /\ \E code \in WithPhone : PhoneOf(code) = Phone1 /\ code \notin Returned

====
